---- MODULE Spec2Model ----
(***************************************************************************)
(* Model of package network (network.go): the probe header constants, the *)
(* classifiers IsKubeletProbe and IsKProbe, and the handler ServeKProbe.   *)
(*                                                                         *)
(* A Go string is a TLA+ string.  An http.Header is a function from the    *)
(* header names present in the map to the list of values of each name      *)
(* (map[string][]string).  An http.ResponseWriter is a record that keeps   *)
(* the live header map, the status code, the header snapshot committed by  *)
(* the first WriteHeader, the body bytes, and the list of calls made on    *)
(* it, in order.                                                           *)
(***************************************************************************)
EXTENDS Integers, Sequences, FiniteSets, TLC

VARIABLES r, w, last, ret, prev

vars == <<r, w, last, ret, prev>>

(***************************************************************************)
(* Constants of the package and of net/http that the code names.           *)
(***************************************************************************)
UserAgentKey == "User-Agent"

ProbeHeaderName == "K-Network-Probe"

ProbeHeaderValue == "probe"

HashHeaderName == "K-Network-Hash"

KubeProbeUAPrefix == "kube-probe/"

KubeletProbeHeaderName == "K-Kubelet-Probe"

StatusOK == 200

StatusBadRequest == 400

(***************************************************************************)
(* Bound of the model: the number of header names present in one request.  *)
(***************************************************************************)
MaxHeaders == 2

(***************************************************************************)
(* strings.HasPrefix(s, prefix):                                           *)
(*   len(s) >= len(prefix) && s[:len(prefix)] == prefix                    *)
(***************************************************************************)
HasPrefix(s, prefix) ==
    /\ Len(s) >= Len(prefix)
    /\ SubSeq(s, 1, Len(prefix)) = prefix

(***************************************************************************)
(* http.Header.Get(key): the first value associated with key, "" when the  *)
(* key is not in the map or its list is empty.  Every key the package      *)
(* passes is already in canonical MIME form, so canonicalisation of the    *)
(* lookup key leaves it as it is.                                          *)
(***************************************************************************)
Get(h, key) ==
    IF key \in DOMAIN h /\ Len(h[key]) > 0 THEN h[key][1] ELSE ""

(***************************************************************************)
(* http.Header.Set(key, value) and http.Header.Del(key) on a header map.   *)
(***************************************************************************)
MapSet(h, key, value) ==
    [k \in DOMAIN h \cup {key} |-> IF k = key THEN <<value>> ELSE h[k]]

MapDel(h, key) ==
    [k \in DOMAIN h \ {key} |-> h[k]]

EmptyHeader == [k \in {} |-> <<>>]

(***************************************************************************)
(* The response writer.  Call is one entry of the list of calls.           *)
(***************************************************************************)
Call(op, key, val, code) ==
    [op |-> op, key |-> key, val |-> val, code |-> code]

NewRecorder ==
    [header |-> EmptyHeader, code |-> 0, wroteHeader |-> FALSE,
     result |-> EmptyHeader, body |-> "", calls |-> <<>>]

\* w.Header().Set(key, value)
HeaderSet(rw, key, value) ==
    [rw EXCEPT !.header = MapSet(rw.header, key, value),
               !.calls = Append(rw.calls, Call("Header.Set", key, value, 0))]

\* w.Header().Del(key)
HeaderDel(rw, key) ==
    [rw EXCEPT !.header = MapDel(rw.header, key),
               !.calls = Append(rw.calls, Call("Header.Del", key, "", 0))]

\* w.WriteHeader(code): the first call commits the status and the headers
\* set so far; a later call is superfluous and changes nothing sent.
WriteHeader(rw, code) ==
    IF rw.wroteHeader
    THEN [rw EXCEPT !.calls = Append(rw.calls, Call("WriteHeader", "", "", code))]
    ELSE [rw EXCEPT !.code = code, !.wroteHeader = TRUE, !.result = rw.header,
                    !.calls = Append(rw.calls, Call("WriteHeader", "", "", code))]

\* w.Write(data): commits status 200 first when no status was written.
Write(rw, data) ==
    LET c == IF rw.wroteHeader
             THEN rw
             ELSE [rw EXCEPT !.code = StatusOK, !.wroteHeader = TRUE,
                             !.result = rw.header]
    IN [c EXCEPT !.body = c.body \o data,
                 !.calls = Append(c.calls, Call("Write", "", data, 0))]

(***************************************************************************)
(* http.Error(w, error, code), as called at network.go:92: drops a stale   *)
(* Content-Length, sets Content-Type and X-Content-Type-Options, writes    *)
(* the status, then prints the message followed by a newline.              *)
(***************************************************************************)
Error(rw, error, code) ==
    LET w1 == HeaderDel(rw, "Content-Length")
        w2 == HeaderSet(w1, "Content-Type", "text/plain; charset=utf-8")
        w3 == HeaderSet(w2, "X-Content-Type-Options", "nosniff")
        w4 == WriteHeader(w3, code)
    IN Write(w4, error \o "\n")

(***************************************************************************)
(* fmt.Sprintf("a probe request must contain a non-empty %q header", n):   *)
(* %q prints n as a double-quoted Go string literal; n holds no character  *)
(* that needs escaping.                                                    *)
(***************************************************************************)
Quote(s) == "\"" \o s \o "\""

ErrorMessage_unquoted(name) ==
    "a probe request must contain a non-empty " \o name \o " header"

ErrorMessage(name) ==
    "a probe request must contain a non-empty " \o Quote(name) \o " header"

(***************************************************************************)
(* IsKubeletProbe, network.go:78-81.                                       *)
(***************************************************************************)
IsKubeletProbe_bothRequired(h) ==
    /\ HasPrefix(Get(h, "User-Agent"), KubeProbeUAPrefix)
    /\ Get(h, KubeletProbeHeaderName) # ""

IsKubeletProbe(h) ==
    \/ HasPrefix(Get(h, "User-Agent"), KubeProbeUAPrefix)
    \/ Get(h, KubeletProbeHeaderName) # ""

(***************************************************************************)
(* IsKProbe, network.go:84-86.                                             *)
(***************************************************************************)
IsKProbe_prefixMatch(h) ==
    HasPrefix(Get(h, ProbeHeaderName), ProbeHeaderValue)

IsKProbe(h) ==
    Get(h, ProbeHeaderName) = ProbeHeaderValue

(***************************************************************************)
(* ServeKProbe, network.go:89-97: the writer after the handler returned.   *)
(* The variants before it are the handler with one slip each.              *)
(***************************************************************************)
\* the return after http.Error is missing
ServeKProbe_noReturn(rw, h) ==
    LET hh == Get(h, HashHeaderName)
        w1 == IF hh = ""
              THEN Error(rw, ErrorMessage(HashHeaderName), StatusBadRequest)
              ELSE rw
    IN WriteHeader(HeaderSet(w1, HashHeaderName, hh), StatusOK)

\* the hash is echoed under the probe header's name
ServeKProbe_echoWrongName(rw, h) ==
    LET hh == Get(h, HashHeaderName)
    IN IF hh = ""
       THEN Error(rw, ErrorMessage(HashHeaderName), StatusBadRequest)
       ELSE WriteHeader(HeaderSet(rw, ProbeHeaderName, hh), StatusOK)

\* the status is written before the header is set
ServeKProbe_statusFirst(rw, h) ==
    LET hh == Get(h, HashHeaderName)
    IN IF hh = ""
       THEN Error(rw, ErrorMessage(HashHeaderName), StatusBadRequest)
       ELSE HeaderSet(WriteHeader(rw, StatusOK), HashHeaderName, hh)

\* the probe marker is echoed as well
ServeKProbe_echoProbeToo(rw, h) ==
    LET hh == Get(h, HashHeaderName)
    IN IF hh = ""
       THEN Error(rw, ErrorMessage(HashHeaderName), StatusBadRequest)
       ELSE WriteHeader(HeaderSet(HeaderSet(rw, ProbeHeaderName,
                                            Get(h, ProbeHeaderName)),
                                  HashHeaderName, hh), StatusOK)

\* the handler answers only requests that carry the probe marker
ServeKProbe_requiresProbe(rw, h) ==
    LET hh == Get(h, HashHeaderName)
    IN IF hh = "" \/ ~IsKProbe(h)
       THEN Error(rw, ErrorMessage(HashHeaderName), StatusBadRequest)
       ELSE WriteHeader(HeaderSet(rw, HashHeaderName, hh), StatusOK)

ServeKProbe(rw, h) ==
    LET hh == Get(h, HashHeaderName)
    IN IF hh = ""
       THEN Error(rw, ErrorMessage(HashHeaderName), StatusBadRequest)
       ELSE WriteHeader(HeaderSet(rw, HashHeaderName, hh), StatusOK)

(***************************************************************************)
(* The requests the operations are called with carry at most MaxHeaders of *)
(* the four header names the package reads, each with one of a few value   *)
(* lists (empty list, empty string, matching, near-matching, two values).  *)
(***************************************************************************)
HeaderNames ==
    {UserAgentKey, KubeletProbeHeaderName, ProbeHeaderName, HashHeaderName}

ValueLists(key) ==
    CASE key = UserAgentKey ->
           {<<"">>, <<"kube-probe/">>, <<"kube-probe/1.27">>, <<"Kube-Probe/1.27">>,
            <<"kube-probe">>, <<"curl kube-probe/1.27">>}
      [] key = KubeletProbeHeaderName ->
           {<<"">>, <<"true">>}
      [] key = ProbeHeaderName ->
           {<<"">>, <<"probe">>, <<"Probe">>, <<"probes">>}
      [] key = HashHeaderName ->
           {<<>>, <<"">>, <<"abc123">>, <<"rev-42">>, <<"rev-42", "abc123">>}

(***************************************************************************)
(* State: r is the header map of the current request, w the response       *)
(* writer of the current exchange, last the operation called last, ret     *)
(* the boolean a classifier returned last; prev holds the previous         *)
(* completed exchange (request headers and response), when there is one.   *)
(***************************************************************************)
Exchange == IF w.wroteHeader THEN <<[req |-> r, resp |-> w]>> ELSE prev

Init ==
    /\ r = EmptyHeader
    /\ w = NewRecorder
    /\ last = "NewRequest"
    /\ ret = FALSE
    /\ prev = <<>>

\* a caller makes a new request, without headers yet, and a fresh response
\* writer for it
NewRequest ==
    /\ r' = EmptyHeader
    /\ w' = NewRecorder
    /\ last' = "NewRequest"
    /\ ret' = FALSE
    /\ prev' = Exchange

\* the caller fills in one header of the request it is making, before it
\* passes the request to any operation of the package
AddHeader ==
    /\ last = "NewRequest"
    /\ Cardinality(DOMAIN r) < MaxHeaders
    /\ \E key \in HeaderNames \ DOMAIN r :
         \E values \in ValueLists(key) :
            r' = [k \in DOMAIN r \cup {key} |->
                     IF k = key THEN values ELSE r[k]]
    /\ UNCHANGED <<w, last, ret, prev>>

CallIsKubeletProbe ==
    /\ ret' = IsKubeletProbe(r)
    /\ last' = "IsKubeletProbe"
    /\ UNCHANGED <<r, w, prev>>

CallIsKProbe ==
    /\ ret' = IsKProbe(r)
    /\ last' = "IsKProbe"
    /\ UNCHANGED <<r, w, prev>>

\* the handler drops the hash header from the request it served
CallServeKProbe_consumesHash ==
    /\ w' = ServeKProbe(NewRecorder, r)
    /\ r' = MapDel(r, HashHeaderName)
    /\ last' = "ServeKProbe"
    /\ ret' = FALSE
    /\ prev' = Exchange

\* ServeKProbe(w, r) with a fresh response writer
CallServeKProbe ==
    /\ w' = ServeKProbe(NewRecorder, r)
    /\ r' = r
    /\ last' = "ServeKProbe"
    /\ ret' = FALSE
    /\ prev' = Exchange

Next ==
    \/ NewRequest
    \/ AddHeader
    \/ CallIsKubeletProbe
    \/ CallIsKProbe
    \/ CallServeKProbe

Spec == Init /\ [][Next]_vars

(***************************************************************************)
(* Vocabulary of the properties, stated without the operators above.       *)
(***************************************************************************)
\* the value of a request header as the documentation reads it: the first
\* value of the name, the empty string when the name is absent
HeaderValue(h, key) ==
    IF key \in DOMAIN h /\ h[key] # <<>> THEN Head(h[key]) ELSE ""

BeginsWith(s, p) == \E n \in 0..Len(s) : SubSeq(s, 1, n) = p

Contains(s, sub) ==
    \E i \in 1..(Len(s) - Len(sub) + 1) : SubSeq(s, i, i + Len(sub) - 1) = sub

CallsOf(rw, op) == {i \in DOMAIN rw.calls : rw.calls[i].op = op}

\* w is the response ServeKProbe gave to the current request r
Served == w.wroteHeader

HashMessage ==
    "a probe request must contain a non-empty \"K-Network-Hash\" header"

(***************************************************************************)
(* C1: IsKubeletProbe returns true exactly when the User-Agent value       *)
(* begins with "kube-probe/" or the K-Kubelet-Probe value is non-empty,    *)
(* an absent header counting as the empty string.                          *)
(***************************************************************************)
C1_KubeletProbeIff ==
    last = "IsKubeletProbe" =>
        (ret <=> \/ BeginsWith(HeaderValue(r, "User-Agent"), "kube-probe/")
                 \/ HeaderValue(r, "K-Kubelet-Probe") # "")

C1_Witness ==
    /\ last = "IsKubeletProbe"
    /\ ret
    /\ "K-Kubelet-Probe" \in DOMAIN r
    /\ r["K-Kubelet-Probe"] = <<"">>
    /\ HeaderValue(r, "User-Agent") = "kube-probe/"

(***************************************************************************)
(* C2: IsKProbe returns true exactly when the K-Network-Probe value is     *)
(* the whole string "probe"; "Probe", "probes", "" and absence give false. *)
(***************************************************************************)
C2_KProbeIff ==
    last = "IsKProbe" => (ret <=> HeaderValue(r, "K-Network-Probe") = "probe")

C2_Witness ==
    /\ last = "IsKProbe"
    /\ ~ret
    /\ HeaderValue(r, "K-Network-Probe") = "probes"

(***************************************************************************)
(* C3: with an absent or empty K-Network-Hash, ServeKProbe answers 400     *)
(* with a body that names K-Network-Hash, and does nothing further: no     *)
(* status 200 is written and no K-Network-Hash response header is set.     *)
(***************************************************************************)
C3_MissingHashIs400 ==
    (Served /\ HeaderValue(r, "K-Network-Hash") = "") =>
        /\ w.code = 400
        /\ Contains(w.body, "K-Network-Hash")
        /\ \A i \in CallsOf(w, "WriteHeader") : w.calls[i].code # 200
        /\ \A i \in CallsOf(w, "Header.Set") : w.calls[i].key # "K-Network-Hash"
        /\ "K-Network-Hash" \notin DOMAIN w.header
        /\ "K-Network-Hash" \notin DOMAIN w.result

C3_Witness ==
    /\ last = "ServeKProbe"
    /\ Served
    /\ "K-Network-Hash" \in DOMAIN r
    /\ r["K-Network-Hash"] = <<"">>
    /\ w.code = 400

(***************************************************************************)
(* C4: with a non-empty K-Network-Hash value v, ServeKProbe answers 200,   *)
(* the response carries K-Network-Hash with exactly v, and no body byte    *)
(* is written.                                                             *)
(***************************************************************************)
C4_HashEchoed ==
    (Served /\ HeaderValue(r, "K-Network-Hash") # "") =>
        /\ w.code = 200
        /\ "K-Network-Hash" \in DOMAIN w.result
        /\ w.result["K-Network-Hash"] = <<HeaderValue(r, "K-Network-Hash")>>
        /\ w.body = ""
        /\ CallsOf(w, "Write") = {}

C4_Witness ==
    /\ last = "ServeKProbe"
    /\ Served
    /\ HeaderValue(r, "K-Network-Probe") = "probe"
    /\ HeaderValue(r, "K-Network-Hash") = "rev-42"
    /\ w.code = 200

(***************************************************************************)
(* C5 as stated: on the missing-hash path the Content-Type is text/plain   *)
(* and the body is exactly the message, nothing before or after it.        *)
(***************************************************************************)
C5_BodyIsMessageOnly ==
    (Served /\ HeaderValue(r, "K-Network-Hash") = "") =>
        /\ BeginsWith(HeaderValue(w.result, "Content-Type"), "text/plain")
        /\ w.body = HashMessage

(***************************************************************************)
(* C5 amended: on the missing-hash path the Content-Type is text/plain     *)
(* (with charset=utf-8) and the body is the message followed by one        *)
(* newline.                                                                *)
(***************************************************************************)
C5_BodyIsMessageLine ==
    (Served /\ HeaderValue(r, "K-Network-Hash") = "") =>
        /\ HeaderValue(w.result, "Content-Type") = "text/plain; charset=utf-8"
        /\ w.body = HashMessage \o "\n"

C5_Witness ==
    /\ last = "ServeKProbe"
    /\ Served
    /\ "K-Network-Hash" \notin DOMAIN r
    /\ Len(w.body) = Len(HashMessage) + 1

(***************************************************************************)
(* C6 as stated: in every call of ServeKProbe at most one status is        *)
(* written and at most one header is set on the response writer.           *)
(***************************************************************************)
C6_OneStatusOneHeader ==
    Served =>
        /\ Cardinality(CallsOf(w, "WriteHeader")) <= 1
        /\ Cardinality(CallsOf(w, "Header.Set")) <= 1

(***************************************************************************)
(* C6 amended: every call of ServeKProbe writes exactly one status; with   *)
(* a non-empty hash it sets exactly one header, K-Network-Hash; without    *)
(* one it sets exactly two, Content-Type and X-Content-Type-Options.       *)
(***************************************************************************)
C6_OneStatusOneOrTwoHeaders ==
    Served =>
        /\ Cardinality(CallsOf(w, "WriteHeader")) = 1
        /\ IF HeaderValue(r, "K-Network-Hash") # ""
           THEN /\ Cardinality(CallsOf(w, "Header.Set")) = 1
                /\ DOMAIN w.header = {"K-Network-Hash"}
           ELSE /\ Cardinality(CallsOf(w, "Header.Set")) = 2
                /\ DOMAIN w.header = {"Content-Type", "X-Content-Type-Options"}

C6_Witness ==
    /\ last = "ServeKProbe"
    /\ Served
    /\ HeaderValue(r, "K-Network-Hash") = ""
    /\ Cardinality(CallsOf(w, "Header.Set")) = 2

(***************************************************************************)
(* C8: no operation changes the request's header map; IsKubeletProbe and   *)
(* IsKProbe change nothing else either (the response writer and the        *)
(* recorded exchanges stay as they were).                                  *)
(***************************************************************************)
C8_RequestUntouched ==
    [][ /\ last' \in {"IsKubeletProbe", "IsKProbe", "ServeKProbe"} => r' = r
        /\ last' \in {"IsKubeletProbe", "IsKProbe"} => w' = w /\ prev' = prev
      ]_vars

C8_Witness ==
    /\ last = "ServeKProbe"
    /\ Served
    /\ prev # <<>>
    /\ prev[1].req = r
    /\ DOMAIN r = {"K-Network-Probe", "K-Network-Hash"}

(***************************************************************************)
(* C9: with a non-empty hash, the K-Network-Hash header is set before the  *)
(* status 200 is written, so it is among the headers committed with the    *)
(* status, and nothing is written after the status.                        *)
(***************************************************************************)
C9_HeaderBeforeStatus ==
    (Served /\ HeaderValue(r, "K-Network-Hash") # "") =>
        /\ \E i, j \in DOMAIN w.calls :
              /\ i < j
              /\ w.calls[i].op = "Header.Set"
              /\ w.calls[i].key = "K-Network-Hash"
              /\ w.calls[j].op = "WriteHeader"
              /\ w.calls[j].code = 200
              /\ j = Len(w.calls)
        /\ "K-Network-Hash" \in DOMAIN w.result

C9_Witness ==
    /\ last = "ServeKProbe"
    /\ Served
    /\ HeaderValue(r, "K-Network-Hash") = "abc123"
    /\ Len(w.calls) = 2

(***************************************************************************)
(* C10: the response of ServeKProbe depends only on the K-Network-Hash     *)
(* value: two requests with the same value get identical responses         *)
(* whatever their other headers, and the status is 200 exactly when the    *)
(* value is non-empty and 400 otherwise.                                   *)
(***************************************************************************)
C10_OnlyHashDecides ==
    Served =>
        /\ w.code = IF HeaderValue(r, "K-Network-Hash") # "" THEN 200 ELSE 400
        /\ (/\ prev # <<>>
            /\ HeaderValue(prev[1].req, "K-Network-Hash")
                 = HeaderValue(r, "K-Network-Hash"))
           => prev[1].resp = w

C10_Witness ==
    /\ last = "ServeKProbe"
    /\ Served
    /\ prev # <<>>
    /\ HeaderValue(r, "K-Network-Hash") = "rev-42"
    /\ HeaderValue(prev[1].req, "K-Network-Hash") = "rev-42"
    /\ HeaderValue(r, "K-Network-Probe") = "probe"
    /\ HeaderValue(prev[1].req, "K-Network-Probe") # "probe"
    /\ HeaderValue(prev[1].req, "User-Agent") = "kube-probe/1.27"

====
